---- MODULE Spec2Model ----
(***************************************************************************)
(* A model of stratux_sensors_to_foreflight.py: the lenient number parser, *)
(* the speed-unit inference, the per-row time resolution, the fold of the  *)
(* accepted rows into the track and its summary, the nearest-aerodrome     *)
(* lookup and the exits of main().                                         *)
(*                                                                         *)
(* Representation.                                                         *)
(*  - A Python str is a sequence of one-character strings, so that strip,  *)
(*    startswith, endswith, lower, replace and float() are computed on the *)
(*    characters, wrapped by Str.  Python's None is None.                    *)
(*  - A Python float is a decimal number [m, e] standing for m * 10^e,     *)
(*    normalised (no trailing zero in m; zero is [0, 0]), which keeps the  *)
(*    thresholds 999999 and 1e12 exact.  Every input of the model is a     *)
(*    short decimal literal, on which binary rounding plays no part.       *)
(***************************************************************************)
EXTENDS Integers, Sequences, FiniteSets, TLC

VARIABLES
    \* ---- parse_number called on one raw value
    p_pc, p_in, p_out,
    \* ---- pass 1 of main(): the choice of the speed units
    s_pc, speed_units_arg, spd_k, speed_cells, speed_samples, spd_units,
    \* ---- nearest_airport_ident called on one query
    n_pc, n_lat, n_lon, n_airports, n_max_nm, n_out,
    \* ---- main(): schema, the fold of pass 2, the exits
    pc, header, schema, base, rows_read, last_row, accepted_at,
    first_dt, last_dt, first_lat, first_lon, last_lat, last_lon,
    total_m, her_vals, ver_vals, tracks, prev_lat, prev_lon,
    output, exit_status

parseVars == <<p_pc, p_in, p_out>>
speedVars == <<s_pc, speed_units_arg, spd_k, speed_cells, speed_samples, spd_units>>
nearVars  == <<n_pc, n_lat, n_lon, n_airports, n_max_nm, n_out>>
foldVars  == <<first_dt, last_dt, first_lat, first_lon, last_lat, last_lon,
               total_m, her_vals, ver_vals, tracks, prev_lat, prev_lon>>
mainVars  == <<pc, header, schema, base, rows_read, last_row, accepted_at,
               foldVars, output, exit_status>>
vars      == <<parseVars, speedVars, nearVars, mainVars>>

-----------------------------------------------------------------------------
(* Python values *)

None == [none |-> TRUE]

\* a str, by its characters
Str(cs) == [str |-> cs]

\* a float, m * 10^e
Num(m, e) == [m |-> m, e |-> e]

RECURSIVE Pow10(_)
Pow10(n) == IF n <= 0 THEN 1 ELSE 10 * Pow10(n - 1)

RECURSIVE NDigits(_)
NDigits(n) == IF n < 10 THEN 1 ELSE 1 + NDigits(n \div 10)

AbsInt(n) == IF n < 0 THEN -n ELSE n

RECURSIVE Normalize(_, _)
Normalize(m, e) ==
    IF m = 0 THEN Num(0, 0)
    ELSE IF AbsInt(m) % 10 = 0
         THEN Normalize(IF m < 0 THEN -(AbsInt(m) \div 10) ELSE m \div 10, e + 1)
         ELSE Num(m, e)

FromInt(n) == Normalize(n, 0)

Sign(x) == IF x.m < 0 THEN -1 ELSE IF x.m = 0 THEN 0 ELSE 1

Abs(x) == Num(AbsInt(x.m), x.e)

Neg(x) == Num(-(x.m), x.e)

\* the position of the leading digit of a positive x
Magnitude(x) == NDigits(x.m) + x.e

\* x < y for positive x and y: by magnitude, then by the aligned mantissas
LtPos(x, y) ==
    \/ Magnitude(x) < Magnitude(y)
    \/ /\ Magnitude(x) = Magnitude(y)
       /\ LET dx == NDigits(x.m)
              dy == NDigits(y.m)
              w  == IF dx > dy THEN dx ELSE dy
          IN  x.m * Pow10(w - dx) < y.m * Pow10(w - dy)

\* x < y
Lt(x, y) ==
    IF Sign(x) # Sign(y) THEN Sign(x) < Sign(y)
    ELSE IF Sign(x) = 0 THEN FALSE
    ELSE IF Sign(x) > 0 THEN LtPos(x, y)
    ELSE LtPos(Abs(y), Abs(x))

\* x <= y
Leq(x, y) == ~Lt(y, x)

\* the integer an integral float of small magnitude stands for
ToInt(x) == x.m * Pow10(x.e)

IsIntegral(x) == x.e >= 0

-----------------------------------------------------------------------------
(* Python str operations, on sequences of characters *)

IsSpace(c) == c \in {" ", "\t"}

RECURSIVE lstrip(_)
lstrip(s) == IF s # <<>> /\ IsSpace(Head(s)) THEN lstrip(Tail(s)) ELSE s

RECURSIVE rstrip(_)
rstrip(s) ==
    IF s # <<>> /\ IsSpace(s[Len(s)]) THEN rstrip(SubSeq(s, 1, Len(s) - 1)) ELSE s

strip(s) == rstrip(lstrip(s))

startswith(s, p) == Len(s) >= Len(p) /\ SubSeq(s, 1, Len(p)) = p

endswith(s, p) == Len(s) >= Len(p) /\ SubSeq(s, Len(s) - Len(p) + 1, Len(s)) = p

UpperCase == <<"A","B","C","D","E","F","G","H","I","J","K","L","M",
               "N","O","P","Q","R","S","T","U","V","W","X","Y","Z">>
LowerCase == <<"a","b","c","d","e","f","g","h","i","j","k","l","m",
               "n","o","p","q","r","s","t","u","v","w","x","y","z">>

lower_char(c) ==
    IF \E i \in 1..Len(UpperCase) : UpperCase[i] = c
    THEN LowerCase[CHOOSE i \in 1..Len(UpperCase) : UpperCase[i] = c]
    ELSE c

lower(s) == [i \in 1..Len(s) |-> lower_char(s[i])]

\* s.replace(",", ".")
replace_comma(s) == [i \in 1..Len(s) |-> IF s[i] = "," THEN "." ELSE s[i]]

DigitChars == <<"0","1","2","3","4","5","6","7","8","9">>

IsDigit(c) == \E i \in 1..10 : DigitChars[i] = c

DigitVal(c) == (CHOOSE i \in 1..10 : DigitChars[i] = c) - 1

\* float(str), read character by character: the literals
\*   [sign] digits [. digits] [e [sign] digits]   with a digit in the mantissa.
\* st holds the place in the literal (at), the mantissa's digits as an integer
\* (m), how many of them follow the point (fd), the exponent (ex) and the signs.
FloatStart ==
    [at |-> "start", neg |-> FALSE, m |-> 0, nd |-> 0, fd |-> 0, eneg |-> FALSE, ex |-> 0]

float_step(st, c) ==
    CASE st.at = "start" /\ c \in {"+", "-"} ->
            [st EXCEPT !.at = "signed", !.neg = (c = "-")]
      [] st.at \in {"start", "signed", "int"} /\ IsDigit(c) ->
            [st EXCEPT !.at = "int", !.m = st.m * 10 + DigitVal(c), !.nd = st.nd + 1]
      [] st.at \in {"start", "signed", "int"} /\ c = "." ->
            [st EXCEPT !.at = "frac"]
      [] st.at = "frac" /\ IsDigit(c) ->
            [st EXCEPT !.m = st.m * 10 + DigitVal(c), !.nd = st.nd + 1, !.fd = st.fd + 1]
      [] st.at \in {"int", "frac"} /\ c \in {"e", "E"} /\ st.nd > 0 ->
            [st EXCEPT !.at = "e"]
      [] st.at = "e" /\ c \in {"+", "-"} ->
            [st EXCEPT !.at = "esigned", !.eneg = (c = "-")]
      [] st.at \in {"e", "esigned", "exp"} /\ IsDigit(c) ->
            [st EXCEPT !.at = "exp", !.ex = st.ex * 10 + DigitVal(c)]
      [] OTHER ->
            [st EXCEPT !.at = "error"]

RECURSIVE float_scan(_, _, _)
float_scan(s, i, st) ==
    IF i > Len(s) THEN st ELSE float_scan(s, i + 1, float_step(st, s[i]))

\* the literal is complete
float_done(st) == (st.at \in {"int", "frac"} /\ st.nd > 0) \/ st.at = "exp"

float_value(st) ==
    Normalize(IF st.neg THEN -(st.m) ELSE st.m,
              (IF st.eneg THEN -(st.ex) ELSE st.ex) - st.fd)

\* float(s) does not raise ValueError
float_ok(s) == float_done(float_scan(strip(s), 1, FloatStart))

\* float(s), when it does not raise
float(s) == float_value(float_scan(strip(s), 1, FloatStart))

-----------------------------------------------------------------------------
(* parse_number *)

Zero == Num(0, 0)

\* 999999.0
Sentinel == Num(999999, 0)

\* 1e12
SentinelMagnitude == Num(1, 12)

GoFormatError == <<"%", "!", "f", "(">>

UnitSuffixes ==
    << <<"f","t">>, <<"f","e","e","t">>, <<"k","t","s">>, <<"k","n","o","t","s">>,
       <<"m","p","s">>, <<"k","m","h">>, <<"k","m","/","h">>, <<"m","/","s">> >>

\* try: return float(text) except: return None
float_or_none(text) == IF float_ok(text) THEN float(text) ELSE None

\* the loop over the unit suffixes: the first suffix the text ends with decides
RECURSIVE parse_with_unit(_, _)
parse_with_unit(s, i) ==
    IF i > Len(UnitSuffixes) THEN None
    ELSE IF endswith(lower(s), UnitSuffixes[i])
         THEN float_or_none(replace_comma(strip(SubSeq(s, 1, Len(s) - Len(UnitSuffixes[i])))))
         ELSE parse_with_unit(s, i + 1)

\* the sentinel filter, on the float x of a direct parse
filter_sentinel(x) ==
    IF x = Sentinel \/ Lt(SentinelMagnitude, Abs(x)) THEN None ELSE x

\* parse_number from its second statement on, s being str(v).strip()
parse_stripped(s) ==
    IF s = <<>> \/ startswith(s, GoFormatError) THEN Zero
    ELSE IF ~float_ok(s) THEN parse_with_unit(s, 1)
    ELSE filter_sentinel(float(s))

parse_number(v) == IF v = None THEN None ELSE parse_stripped(strip(v.str))

-----------------------------------------------------------------------------
(* detect_speed_units *)

\* [v for v in samples if v is not None]
RECURSIVE not_none(_)
not_none(samples) ==
    IF samples = <<>> THEN <<>>
    ELSE IF Head(samples) = None THEN not_none(Tail(samples))
         ELSE <<Head(samples)>> \o not_none(Tail(samples))

\* v put in its place in the ascending list vals
RECURSIVE insert_sorted(_, _)
insert_sorted(v, vals) ==
    IF vals = <<>> THEN <<v>>
    ELSE IF Lt(v, Head(vals)) THEN <<v>> \o vals
         ELSE <<Head(vals)>> \o insert_sorted(v, Tail(vals))

\* vals.sort()
RECURSIVE sort(_)
sort(vals) == IF vals = <<>> THEN <<>> ELSE insert_sorted(Head(vals), sort(Tail(vals)))

Between(lo, x, hi) == Leq(FromInt(lo), x) /\ Leq(x, FromInt(hi))

\* the bands tried with meters-per-second first
detect_speed_units_mps_first(samples) ==
    LET vals == sort(not_none(samples))
    IN  IF Len(vals) < 5 THEN "kts"
        ELSE LET m == vals[(Len(vals) \div 2) + 1]
             IN  IF Between(18, m, 100) THEN "mps"
                 ELSE IF Between(40, m, 250) THEN "kts"
                 ELSE IF Between(70, m, 450) THEN "kmh"
                 ELSE "kts"

detect_speed_units(samples) ==
    LET vals == sort(not_none(samples))
    IN  IF Len(vals) < 5 THEN "kts"
        ELSE LET m == vals[(Len(vals) \div 2) + 1]
             IN  IF Between(40, m, 250) THEN "kts"
                 ELSE IF Between(18, m, 100) THEN "mps"
                 ELSE IF Between(70, m, 450) THEN "kmh"
                 ELSE "kts"

-----------------------------------------------------------------------------
(* the candidate column names and the schema *)

LAT_KEYS ==
    << <<"g","p","s","l","a","t","i","t","u","d","e">>,
       <<"g","p","s","_","l","a","t","i","t","u","d","e">>,
       <<"l","a","t","i","t","u","d","e">>,
       <<"l","a","t">> >>

LON_KEYS ==
    << <<"g","p","s","l","o","n","g","i","t","u","d","e">>,
       <<"g","p","s","_","l","o","n","g","i","t","u","d","e">>,
       <<"l","o","n","g","i","t","u","d","e">>,
       <<"l","o","n">> >>

HER_KEYS ==
    << <<"g","p","s","h","o","r","i","z","o","n","t","a","l","a","c","c","u","r","a","c","y">>,
       <<"h","o","r","i","z","o","n","t","a","l","e","r","r","o","r">> >>

VER_KEYS ==
    << <<"g","p","s","v","e","r","t","i","c","a","l","a","c","c","u","r","a","c","y">>,
       <<"v","e","r","t","i","c","a","l","e","r","r","o","r">> >>

TIME_KEYS_EPOCH ==
    << <<"g","p","s","t","i","m","e">>,
       <<"t","i","m","e","u","n","i","x">>,
       <<"u","n","i","x","t","i","m","e">>,
       <<"t","i","m","e","s","t","a","m","p">>,
       <<"e","p","o","c","h">> >>

TIME_KEYS_SOD ==
    << <<"g","p","s","l","a","s","t","f","i","x","t","i","m","e","s","i","n","c","e","m","i","d","n","i","g","h","t">>,
       <<"s","o","d">>,
       <<"s","e","c","o","n","d","s","o","f","d","a","y">> >>

\* str(s).strip().lower()
norm(s) == lower(strip(s.str))

\* the column of hdr that the earliest candidate names, the earliest such column
map_key(hdr, cands) ==
    LET hits == { ch \in (1..Len(cands)) \X (1..Len(hdr)) : norm(hdr[ch[2]]) = cands[ch[1]] }
    IN  IF hits = {} THEN None
        ELSE LET best == CHOOSE ch \in hits :
                             \A o \in hits : \/ ch[1] < o[1]
                                             \/ ch[1] = o[1] /\ ch[2] <= o[2]
             IN  hdr[best[2]]

\* the keys main() maps in pass 1
resolve(hdr) ==
    [lat_k        |-> map_key(hdr, LAT_KEYS),
     lon_k        |-> map_key(hdr, LON_KEYS),
     her_k        |-> map_key(hdr, HER_KEYS),
     ver_k        |-> map_key(hdr, VER_KEYS),
     time_epoch_k |-> map_key(hdr, TIME_KEYS_EPOCH),
     time_sod_k   |-> map_key(hdr, TIME_KEYS_SOD)]

\* not (lat_k and lon_k)
missing_latlon(k) == ~(k.lat_k # None /\ k.lon_k # None)

\* not (time_epoch_k or time_sod_k)
missing_time(k) == ~(k.time_epoch_k # None \/ k.time_sod_k # None)

-----------------------------------------------------------------------------
(* the columns and the cells of the input files of the model *)

HLat   == Str(<<" ","L","a","t">>)
HLon   == Str(<<"L","O","N"," ">>)
HEpoch == Str(<<"G","P","S","T","i","m","e">>)
HSod   == Str(<<"S","O","D">>)
HHer   == Str(<<"H","o","r","i","z","o","n","t","a","l","E","r","r","o","r">>)
HVer   == Str(<<"V","e","r","t","i","c","a","l","E","r","r","o","r">>)

Headers ==
    { <<HLat, HLon, HEpoch, HSod>>,
      <<HLat, HLon, HEpoch, HHer, HVer>>,
      <<HLon, HLat, HSod>>,
      <<HLon, HEpoch, HSod>>,
      <<HLat, HSod>>,
      <<HLat, HLon, HHer, HVer>>,
      <<>> }

RawLat   == { Str(<<"0">>), Str(<<"9","0">>), Str(<<"9","1">>), Str(<<>>) }
RawLon   == { Str(<<"0">>), Str(<<"2","7","0">>) }
RawEpoch == { Str(<<"1">>), Str(<<"2">>), Str(<<"x">>) }
RawSod   == { Str(<<"3">>), Str(<<"2","0","0","0","0","1">>) }
RawHer   == { Str(<<"5">>), Str(<<"x">>) }
RawVer   == { Str(<<"7">>) }

\* the raw values a column of the input holds
CellsOf(h) ==
    CASE h = HLat   -> RawLat
      [] h = HLon   -> RawLon
      [] h = HEpoch -> RawEpoch
      [] h = HSod   -> RawSod
      [] h = HHer   -> RawHer
      [] h = HVer   -> RawVer

\* the rows csv.DictReader yields under the header hdr
RECURSIVE RowsOver(_)
RowsOver(hdr) ==
    IF hdr = <<>> THEN { <<>> }
    ELSE { (Head(hdr) :> c) @@ r : c \in CellsOf(Head(hdr)), r \in RowsOver(Tail(hdr)) }

AllCells == RawLat \cup RawLon \cup RawEpoch \cup RawSod \cup RawHer \cup RawVer

\* parse_number, tabulated on the cells of the model
Parsed == [c \in AllCells |-> parse_number(c)]

-----------------------------------------------------------------------------
(* coordinates and time of a row *)

in_range_latlon_wide(lat, lon) ==
    /\ lat # None /\ lon # None
    /\ Leq(FromInt(-90), lat) /\ Leq(lat, FromInt(90))
    /\ Leq(FromInt(-180), lon) /\ Leq(lon, FromInt(360))

in_range_latlon(lat, lon) ==
    /\ lat # None /\ lon # None
    /\ Leq(FromInt(-90), lat) /\ Leq(lat, FromInt(90))
    /\ Leq(FromInt(-180), lon) /\ Leq(lon, FromInt(180))

\* x + y
Add(x, y) ==
    LET e == IF x.e < y.e THEN x.e ELSE y.e
    IN  Normalize(x.m * Pow10(x.e - e) + y.m * Pow10(y.e - e), e)

\* the instants datetime holds, years 1 to 9999: from -62135596800 s up to
\* 253402300799 s, the upper end cut to the nine digits an integer of the model
\* holds (no input of the model lies in the last 800 s)
MinTimestamp == Num(-621355968, 2)
MaxTimestamp == Num(253402300, 3)

\* datetime.fromtimestamp(v, tz=timezone.utc), None when it raises
fromtimestamp(v) ==
    IF v = None THEN None
    ELSE IF Leq(MinTimestamp, v) /\ Lt(v, MaxTimestamp) THEN v
    ELSE None

parse_epoch_as_dt(x) == fromtimestamp(Parsed[x])

\* anchor is the midnight the seconds of the day are counted from: that of
\* --sod-date, else of the input file's mtime, else of the clock
\* base + timedelta(seconds=v), None for a v out of [0, 200000]
sod_after(v, anchor) ==
    IF v = None \/ Lt(v, Zero) \/ Lt(FromInt(200000), v) THEN None
    ELSE Add(FromInt(anchor), v)

parse_sod_as_dt(x, anchor) == sod_after(Parsed[x], anchor)

\* r.get(key)
cell(r, key) == r[key]

\* to_num of the loop body
to_num(r, key) == IF key # None THEN Parsed[cell(r, key)] ELSE None

\* the epoch column alone decides once it resolved
resolve_time_epoch_only(r, epoch_key, sod_key, anchor) ==
    IF epoch_key # None THEN parse_epoch_as_dt(cell(r, epoch_key))
    ELSE IF sod_key # None THEN parse_sod_as_dt(cell(r, sod_key), anchor)
    ELSE None

\* dt of the loop body
resolve_time(r, epoch_key, sod_key, anchor) ==
    LET dt == IF epoch_key # None THEN parse_epoch_as_dt(cell(r, epoch_key)) ELSE None
    IN  IF dt = None /\ sod_key # None
        THEN parse_sod_as_dt(cell(r, sod_key), anchor)
        ELSE dt

-----------------------------------------------------------------------------
(* haversine_m, on the points whose latitudes and longitudes are multiples    *)
(* of 90 degrees, where sin^2 and cos take the values 0, 1/2 and 1 and the    *)
(* formula is exact: 2 * asin(sqrt(a)) is 0, a quarter turn or a half turn.   *)

\* R * pi / 2 for R = 6371000.0, in whole metres
QuarterArcM == 10007543

\* 2 * sin(radians(d) / 2) ** 2
TwiceSinSqHalf(d) ==
    LET r == d % 360
    IN  CASE r = 0 -> 0 [] r = 90 -> 1 [] r = 180 -> 2 [] r = 270 -> 1

\* cos(radians(d))
CosDeg(d) == CASE d = 0 -> 1 [] d = 90 -> 0 [] d = -90 -> 0

haversine_m(lat1, lon1, lat2, lon2) ==
    LET phi1 == ToInt(lat1)
        phi2 == ToInt(lat2)
        dphi == ToInt(lat2) - ToInt(lat1)
        dl   == ToInt(lon2) - ToInt(lon1)
        a2   == TwiceSinSqHalf(dphi) + CosDeg(phi1) * CosDeg(phi2) * TwiceSinSqHalf(dl)
    IN  a2 * QuarterArcM

-----------------------------------------------------------------------------
(* nearest_airport_ident *)

\* best_nm before the scan, 1e9
InitBestNm == 1000000000

\* d_m / 1852.0, in whole nautical miles (on the grid: 0, 5403 and 10807)
to_nm(d_m) == d_m \div 1852

\* the scan of the records from the i-th on
RECURSIVE scan_airports(_, _, _, _, _)
scan_airports(lat, lon, airports, i, best) ==
    IF i > Len(airports) THEN best
    ELSE LET a    == airports[i]
             d_nm == to_nm(haversine_m(lat, lon, a.lat, a.lon))
         IN  scan_airports(lat, lon, airports, i + 1,
                           IF d_nm < best.nm THEN [ident |-> a.ident, nm |-> d_nm] ELSE best)

\* the closest record whatever its distance
nearest_airport_ident_any_distance(lat, lon, airports, max_nm) ==
    scan_airports(lat, lon, airports, 1, [ident |-> "", nm |-> InitBestNm]).ident

nearest_airport_ident(lat, lon, airports, max_nm) ==
    LET best == scan_airports(lat, lon, airports, 1, [ident |-> "", nm |-> InitBestNm])
    IN  IF best.nm <= max_nm THEN best.ident ELSE ""

-----------------------------------------------------------------------------
(* parse_number applied to one raw value *)

\* the longest run of blanks put around a raw value
MaxPad == 1

Blanks(n) == [i \in 1..n |-> " "]

RawBodies ==
    { <<>>, <<"0">>, <<"5","5">>, <<"9","1">>, <<"-","9","1">>, <<"1",".","5">>,
      <<"1",",","5">>, <<"9","9","9","9","9","9">>, <<"9","9","9","9","9","8">>,
      <<"1","e","1","2">>, <<"2","e","1","2">>, <<"-","2","E","1","2">>,
      <<"+","5">>, <<".","5">>, <<"1","e">>,
      <<"x">>, <<"%","!","f","(","i","n","t","=","0",")">> }

RawUnits ==
    { <<>>, <<"f","t">>, <<"F","T">>, <<" ","k","n","o","t","s">>, <<"k","t","s">>,
      <<"k","m","/","h">>, <<"m","/","s">>, <<"f","e","e","t">> }

RawInputs ==
    {None} \cup
    { Str(Blanks(l) \o b \o u \o Blanks(r)) :
        l \in 0..MaxPad, b \in RawBodies, u \in RawUnits, r \in 0..MaxPad }

ParseCall ==
    /\ p_pc = "call"
    /\ p_out' = parse_number(p_in)
    /\ p_pc' = "ret"
    /\ UNCHANGED <<p_in, speedVars, nearVars, mainVars>>

-----------------------------------------------------------------------------
(* pass 1 of main(): the speed units, given or inferred from the speed column *)

\* the most rows whose speed cell is sampled (the code stops at 1000)
MaxSamples == 5

RawSpeeds ==
    { None, Str(<<"3","0">>), Str(<<"5","5">>), Str(<<"2","0","0">>), Str(<<"3","0","0">>) }

RECURSIVE SeqsUpTo(_, _)
SeqsUpTo(S, n) ==
    IF n = 0 THEN { <<>> }
    ELSE LET shorter == SeqsUpTo(S, n - 1)
         IN  shorter \cup { Append(q, x) : q \in { r \in shorter : Len(r) = n - 1 }, x \in S }

\* speed_samples as the loop over the rows leaves it
sample_speeds(cells, key) ==
    IF key THEN [i \in 1..Len(cells) |-> parse_number(cells[i])] ELSE <<>>

Pass1Auto ==
    /\ s_pc = "pass1"
    /\ speed_units_arg = "auto"
    /\ speed_samples' = sample_speeds(speed_cells, spd_k)
    /\ spd_units' = detect_speed_units(speed_samples')
    /\ s_pc' = "pass2"
    /\ UNCHANGED <<speed_units_arg, spd_k, speed_cells, parseVars, nearVars, mainVars>>

Pass1Given ==
    /\ s_pc = "pass1"
    /\ speed_units_arg # "auto"
    /\ spd_units' = speed_units_arg
    /\ s_pc' = "pass2"
    /\ UNCHANGED <<speed_units_arg, spd_k, speed_cells, speed_samples,
                   parseVars, nearVars, mainVars>>

-----------------------------------------------------------------------------
(* nearest_airport_ident applied to one query *)

\* the most records of the airport directory
MaxAirports == 3

\* the points of the grid, in degrees
GridPoints ==
    { [lat |-> FromInt(la), lon |-> FromInt(lo)] : la \in {0, 90}, lo \in {0, 180} }

AirportRecords ==
    { [ident |-> id, lat |-> pt.lat, lon |-> pt.lon] : id \in {"EDDF", "KSFO"}, pt \in GridPoints }

\* radii in whole nautical miles, none within a mile of a grid distance but 0
Radii == {0, 20, 6000, 11000}

NearestCall ==
    /\ n_pc = "call"
    /\ n_out' = nearest_airport_ident(n_lat, n_lon, n_airports, n_max_nm)
    /\ n_pc' = "ret"
    /\ UNCHANGED <<n_lat, n_lon, n_airports, n_max_nm, parseVars, speedVars, mainVars>>

-----------------------------------------------------------------------------
(* main(): the inputs *)

\* the most rows the input file holds
MaxRows == 3

\* the midnights the seconds of the day are anchored at, in seconds since 1970
AnchorMidnights == { 24 * 60 * 60 }

\* the airport directory of the run, after load_airports_db, and the radius
\* --airport-threshold-nm (its default)
Directory ==
    << [ident |-> "EDDF", lat |-> FromInt(0), lon |-> FromInt(0)],
       [ident |-> "KSFO", lat |-> FromInt(0), lon |-> FromInt(180)] >>

AirportThresholdNm == 20

-----------------------------------------------------------------------------
(* main(): the schema check, the loop of pass 2, the exits *)

MainInit ==
    /\ pc = "schema"
    /\ header \in Headers
    /\ schema = None
    /\ base \in AnchorMidnights
    /\ rows_read = 0 /\ last_row = None /\ accepted_at = <<>>
    /\ first_dt = None /\ last_dt = None
    /\ first_lat = None /\ first_lon = None /\ last_lat = None /\ last_lon = None
    /\ total_m = 0 /\ her_vals = <<>> /\ ver_vals = <<>> /\ tracks = <<>>
    /\ prev_lat = None /\ prev_lon = None
    /\ output = None /\ exit_status = None

\* ap.error(...): nothing is written, the process exits with status 2
SchemaError ==
    /\ pc = "schema"
    /\ schema' = resolve(header)
    /\ missing_latlon(schema') \/ missing_time(schema')
    /\ pc' = "exit"
    /\ exit_status' = 2
    /\ UNCHANGED <<header, base, rows_read, last_row, accepted_at, foldVars,
                   output, parseVars, speedVars, nearVars>>

SchemaResolved ==
    /\ pc = "schema"
    /\ schema' = resolve(header)
    /\ ~missing_latlon(schema') /\ ~missing_time(schema')
    /\ pc' = "pass2"
    /\ UNCHANGED <<header, base, rows_read, last_row, accepted_at, foldVars, output,
                   exit_status, parseVars, speedVars, nearVars>>

\* total_m after a row at (lat, lon), the previous accepted row at (plat, plon)
accumulate_from_origin(total, plat, plon, lat, lon) ==
    IF plat # None /\ plon # None
    THEN total + haversine_m(plat, plon, lat, lon)
    ELSE total + haversine_m(Zero, Zero, lat, lon)

accumulate(total, plat, plon, lat, lon) ==
    IF plat # None /\ plon # None
    THEN total + haversine_m(plat, plon, lat, lon)
    ELSE total

\* first_dt after a row at dt: if first_dt is None or dt < first_dt
earliest(first, dt) == IF first = None \/ Lt(dt, first) THEN dt ELSE first

\* last_dt after a row at dt: if last_dt is None or dt > last_dt
latest(last, dt) == IF last = None \/ Lt(last, dt) THEN dt ELSE last

\* the entry of tracks for an accepted row (the values, before their formatting)
sample(dt, lat, lon, her, ver) ==
    [Timestamp |-> dt, Latitude |-> lat, Longitude |-> lon,
     HorizontalError |-> her, VerticalError |-> ver]

\* the row read last was accepted
last_accepted == accepted_at # <<>> /\ accepted_at[Len(accepted_at)] = rows_read

\* the row is skipped: continue
Skip(r) ==
    /\ last_row' = r
    /\ accepted_at' = accepted_at
    /\ UNCHANGED foldVars

\* the rest of the loop body, for a row that passed both checks
Accept(r, lat, lon, dt, her, ver) ==
    /\ total_m' = accumulate(total_m, prev_lat, prev_lon, lat, lon)
    /\ prev_lat' = lat /\ prev_lon' = lon
    /\ her_vals' = IF her # None THEN Append(her_vals, her) ELSE her_vals
    /\ ver_vals' = IF ver # None THEN Append(ver_vals, ver) ELSE ver_vals
    /\ tracks' = Append(tracks, sample(dt, lat, lon, her, ver))
    /\ first_dt' = earliest(first_dt, dt)
    /\ last_dt'  = latest(last_dt, dt)
    /\ first_lat' = IF first_lat = None THEN lat ELSE first_lat
    /\ first_lon' = IF first_lat = None THEN lon ELSE first_lon
    /\ last_lat' = lat /\ last_lon' = lon
    /\ last_row' = r
    /\ accepted_at' = Append(accepted_at, rows_read + 1)

\* the two checks of the loop body, on the row's parsed values
Fold(r, lat, lon, dt, her, ver) ==
    IF ~in_range_latlon(lat, lon) THEN Skip(r)
    ELSE IF dt = None THEN Skip(r)
    ELSE Accept(r, lat, lon, dt, her, ver)

\* one turn of "for r in reader"
LoopBody(r) ==
    Fold(r, to_num(r, schema.lat_k), to_num(r, schema.lon_k),
         resolve_time(r, schema.time_epoch_k, schema.time_sod_k, base),
         to_num(r, schema.her_k), to_num(r, schema.ver_k))

ReadRow ==
    /\ pc = "pass2"
    /\ rows_read < MaxRows
    /\ \E r \in RowsOver(header) : LoopBody(r)
    /\ rows_read' = rows_read + 1
    /\ UNCHANGED <<pc, header, schema, base, output, exit_status, parseVars, speedVars, nearVars>>

\* if not tracks
no_usable_samples_no_rows == rows_read = 0

no_usable_samples == tracks = <<>>

\* sys.exit(1) at the end of the input
NoUsableSamples ==
    /\ pc = "pass2"
    /\ no_usable_samples
    /\ pc' = "exit"
    /\ exit_status' = 1
    /\ UNCHANGED <<header, schema, base, rows_read, last_row, accepted_at, foldVars,
                   output, parseVars, speedVars, nearVars>>

\* x * 1000
Times1000(x) == IF x = None THEN None ELSE Normalize(x.m, x.e + 3)

duration_reversed(first, last) ==
    IF first = None \/ last = None THEN None ELSE Add(first, Neg(last))

\* last - first
Duration(first, last) == IF first = None \/ last = None THEN None ELSE Add(last, Neg(first))

derived_ident(lat, lon) ==
    IF lat # None /\ lon # None
    THEN nearest_airport_ident(lat, lon, Directory, AirportThresholdNm)
    ELSE ""

\* the metadata row and the track rows, as values (meters_to and the
\* formatting of the numbers are applied on writing)
meta_values ==
    [DerivedOrigin      |-> derived_ident(first_lat, first_lon),
     StartLatitude      |-> first_lat,
     StartLongitude     |-> first_lon,
     DerivedDestination |-> derived_ident(last_lat, last_lon),
     EndLatitude        |-> last_lat,
     EndLongitude       |-> last_lon,
     StartTime          |-> Times1000(first_dt),
     EndTime            |-> Times1000(last_dt),
     TotalDuration      |-> Duration(first_dt, last_dt),
     TotalDistanceM     |-> total_m,
     VerticalErrors     |-> ver_vals,
     HorizontalErrors   |-> her_vals]

\* the output file is written and main() returns
WriteOutput ==
    /\ pc = "pass2"
    /\ ~no_usable_samples
    /\ output' = [meta |-> meta_values, rows |-> tracks]
    /\ pc' = "exit"
    /\ exit_status' = 0
    /\ UNCHANGED <<header, schema, base, rows_read, last_row, accepted_at, foldVars,
                   parseVars, speedVars, nearVars>>

-----------------------------------------------------------------------------
(* the specifications *)

ParseIdle == p_pc = "idle" /\ p_in = None /\ p_out = None

SpeedIdle ==
    /\ s_pc = "idle" /\ speed_units_arg = "kts" /\ spd_k = FALSE
    /\ speed_cells = <<>> /\ speed_samples = <<>> /\ spd_units = None

NearIdle ==
    /\ n_pc = "idle" /\ n_lat = Zero /\ n_lon = Zero /\ n_airports = <<>>
    /\ n_max_nm = 0 /\ n_out = ""

MainIdle ==
    /\ pc = "idle" /\ header = <<>> /\ schema = None /\ base = 0 /\ rows_read = 0
    /\ last_row = None /\ accepted_at = <<>>
    /\ first_dt = None /\ last_dt = None
    /\ first_lat = None /\ first_lon = None /\ last_lat = None /\ last_lon = None
    /\ total_m = 0 /\ her_vals = <<>> /\ ver_vals = <<>> /\ tracks = <<>>
    /\ prev_lat = None /\ prev_lon = None
    /\ output = None /\ exit_status = None

\* main() on one input file
Init == ParseIdle /\ SpeedIdle /\ NearIdle /\ MainInit

Next == SchemaError \/ SchemaResolved \/ ReadRow \/ NoUsableSamples \/ WriteOutput

Spec == Init /\ [][Next]_vars

\* parse_number on one raw value
InitParse ==
    /\ p_pc = "call" /\ p_in \in RawInputs /\ p_out = None
    /\ SpeedIdle /\ NearIdle /\ MainIdle

NextParse == ParseCall

SpecParse == InitParse /\ [][NextParse]_vars

\* pass 1 on one speed column
InitSpeed ==
    /\ s_pc = "pass1"
    /\ speed_units_arg \in {"kts", "mps", "kmh", "auto"}
    /\ \/ spd_k = TRUE  /\ speed_cells \in SeqsUpTo(RawSpeeds, MaxSamples)
       \/ spd_k = FALSE /\ speed_cells \in SeqsUpTo(RawSpeeds, 1)
    /\ speed_samples = <<>>
    /\ spd_units = None
    /\ ParseIdle /\ NearIdle /\ MainIdle

NextSpeed == Pass1Auto \/ Pass1Given

SpecSpeed == InitSpeed /\ [][NextSpeed]_vars

\* nearest_airport_ident on one query
InitNearest ==
    /\ n_pc = "call"
    /\ \E pt \in GridPoints : n_lat = pt.lat /\ n_lon = pt.lon
    /\ n_airports \in SeqsUpTo(AirportRecords, MaxAirports)
    /\ n_max_nm \in Radii
    /\ n_out = ""
    /\ ParseIdle /\ SpeedIdle /\ MainIdle

NextNearest == NearestCall

SpecNearest == InitNearest /\ [][NextNearest]_vars

-----------------------------------------------------------------------------
(* Claims about parse_number, under SpecParse *)

\* the raw value is the empty string once stripped
IsBlank(v) == v # None /\ strip(v.str) = <<>>

\* the raw value starts, once stripped, with the marker of a Go formatting error
IsFormatError(v) == v # None /\ startswith(strip(v.str), GoFormatError)

\* the raw value reads as a number, as it stands or without its unit suffix
ReadsAsNumber(v) ==
    /\ v # None
    /\ \/ float_ok(v.str)
       \/ parse_with_unit(strip(v.str), 1) # None

\* C7: parse_number returns absent for every absent input and for every empty
\* or whitespace-only input; among the inputs that do not read as a number,
\* only one matching the formatting-error marker is turned into zero.
C7_EmptyInputIsAbsent ==
    p_pc = "ret" =>
        /\ (p_in = None \/ IsBlank(p_in)) => p_out = None
        /\ (p_out = Zero /\ ~ReadsAsNumber(p_in)) => IsFormatError(p_in)

\* x is one of the device's fault codes: 999999, or of magnitude above 1e12
IsSentinelValue(x) == x = Sentinel \/ Lt(SentinelMagnitude, Abs(x))

\* C8: the sentinel filter applies to every successful parse: whether the value
\* parsed directly or after stripping a unit suffix, parse_number never returns
\* 999999 or a value of magnitude above 1e12.
C8_SentinelFilteredOnEveryParse ==
    (p_pc = "ret" /\ p_out # None) => ~IsSentinelValue(p_out)

-----------------------------------------------------------------------------
(* Claims about the speed-unit inference, under SpecSpeed *)

\* the valid samples among the sampled cells
ValidSpeeds == not_none(sample_speeds(speed_cells, spd_k))

\* m is the median of vals: the element of rank Len(vals) \div 2 (from 0) in
\* ascending order
IsMedian(m, vals) ==
    /\ \E i \in 1..Len(vals) : vals[i] = m
    /\ Cardinality({ i \in 1..Len(vals) : Lt(vals[i], m) }) <= Len(vals) \div 2
    /\ Cardinality({ i \in 1..Len(vals) : Leq(vals[i], m) }) > Len(vals) \div 2

\* the units were inferred from at least 5 valid samples of median m
InferredAtMedian(m) ==
    /\ s_pc = "pass2"
    /\ speed_units_arg = "auto"
    /\ Len(ValidSpeeds) >= 5
    /\ IsMedian(FromInt(m), ValidSpeeds)

\* C3 as stated: on at least 5 valid samples a median of 55 yields knots, a
\* median of 30 meters-per-second and a median of 200 km/h.
C3_Median200IsKmh ==
    /\ InferredAtMedian(55) => spd_units = "kts"
    /\ InferredAtMedian(30) => spd_units = "mps"
    /\ InferredAtMedian(200) => spd_units = "kmh"

\* C3 amended: on at least 5 valid samples a median of 55 yields knots, a
\* median of 30 meters-per-second, and a median of 200 knots too, the bands
\* being tried in the order knots [40,250], meters-per-second [18,100], km/h
\* [70,450]; km/h is the answer for a median above 250, such as 300.
C3_MedianBandsInOrder ==
    /\ InferredAtMedian(55) => spd_units = "kts"
    /\ InferredAtMedian(30) => spd_units = "mps"
    /\ InferredAtMedian(200) => spd_units = "kts"
    /\ InferredAtMedian(300) => spd_units = "kmh"

C3_Witness == InferredAtMedian(200) /\ spd_units = "kts"

-----------------------------------------------------------------------------
(* Claims about the nearest-aerodrome lookup, under SpecNearest *)

\* the distance of the i-th record from the query point, in nautical miles
DistanceNm(i) ==
    to_nm(haversine_m(n_lat, n_lon, n_airports[i].lat, n_airports[i].lon))

\* the i-th record is a closest one
IsClosest(i) == \A j \in 1..Len(n_airports) : DistanceNm(i) <= DistanceNm(j)

\* C9: the lookup returns "no match" (the empty identifier) or the identifier of
\* a record whose distance is minimal over all records and within the radius;
\* it returns "no match" exactly when there is no record or the closest record
\* lies farther than the radius.
C9_NearestWithinRadius ==
    n_pc = "ret" =>
        /\ \/ n_out = ""
           \/ \E i \in 1..Len(n_airports) :
                 /\ n_airports[i].ident = n_out
                 /\ IsClosest(i)
                 /\ DistanceNm(i) <= n_max_nm
        /\ n_out = "" <=>
              \/ n_airports = <<>>
              \/ \E i \in 1..Len(n_airports) : IsClosest(i) /\ DistanceNm(i) > n_max_nm

\* a match is refused although records exist: the closest one is too far
C9_Witness ==
    /\ n_pc = "ret"
    /\ n_out = ""
    /\ Len(n_airports) >= 2
    /\ \E i \in 1..Len(n_airports) : IsClosest(i) /\ DistanceNm(i) > n_max_nm

-----------------------------------------------------------------------------
(* Claims about the fold over the rows, under Spec *)

\* the cell of the row read last under a resolved column
LastCell(key) == cell(last_row, key)

\* the Sample appended last
LastSample == tracks[Len(tracks)]

\* x lies outside [-lim, lim]
Outside(x, lim) == x # None /\ (Lt(x, FromInt(0 - lim)) \/ Lt(FromInt(lim), x))

LastLat == Parsed[LastCell(schema.lat_k)]

LastLon == Parsed[LastCell(schema.lon_k)]

\* the instant the epoch column gives for the row read last, if it resolved
LastEpochInstant ==
    IF schema.time_epoch_k # None
    THEN parse_epoch_as_dt(LastCell(schema.time_epoch_k))
    ELSE None

\* the instant the seconds-of-day column gives for the row read last
LastSodInstant ==
    IF schema.time_sod_k # None
    THEN parse_sod_as_dt(LastCell(schema.time_sod_k), base)
    ELSE None

\* the row read last has usable coordinates
LastCoordsUsable ==
    /\ LastLat # None /\ LastLon # None
    /\ ~Outside(LastLat, 90) /\ ~Outside(LastLon, 180)

\* C1 as stated: when an epoch column resolved and the row's epoch value does
\* not yield a valid instant, the row is discarded, whatever its seconds-of-day.
C1_FailedEpochDiscardsRow ==
    (rows_read >= 1 /\ schema.time_epoch_k # None /\ LastEpochInstant = None)
        => ~last_accepted

\* C1 amended: a row with usable coordinates takes the instant of its epoch
\* value when that is valid; when the epoch column did not resolve or the epoch
\* value yields no instant, it takes the instant of its seconds-of-day value;
\* it is discarded only when neither yields an instant.
C1_SodIsFallbackOfFailedEpoch ==
    (rows_read >= 1 /\ LastCoordsUsable) =>
        /\ LastEpochInstant # None =>
              last_accepted /\ LastSample.Timestamp = LastEpochInstant
        /\ (LastEpochInstant = None /\ LastSodInstant # None) =>
              last_accepted /\ LastSample.Timestamp = LastSodInstant
        /\ (LastEpochInstant = None /\ LastSodInstant = None) => ~last_accepted

\* a row whose epoch value is invalid is accepted at its seconds-of-day instant
C1_Witness ==
    /\ rows_read >= 1
    /\ schema.time_epoch_k # None
    /\ LastEpochInstant = None
    /\ LastSodInstant # None
    /\ last_accepted
    /\ LastSample.Timestamp = LastSodInstant

\* the positions of the Samples of least and of greatest timestamp
EarliestAt(rows) ==
    { i \in 1..Len(rows) :
        \A j \in 1..Len(rows) : Leq(rows[i].Timestamp, rows[j].Timestamp) }

LatestAt(rows) ==
    { i \in 1..Len(rows) :
        \A j \in 1..Len(rows) : Leq(rows[j].Timestamp, rows[i].Timestamp) }

MinOf(S) == CHOOSE i \in S : \A j \in S : i <= j

MaxOf(S) == CHOOSE i \in S : \A j \in S : j <= i

\* C2: on output, the start and end times are the least and greatest timestamps
\* of the accepted rows, and the Start/End coordinates of the metadata are those
\* of the rows carrying them (the first-seen such row for the start, the
\* last-seen for the end).
C2_CoordinatesAtTimeExtrema ==
    output # None =>
        /\ output.meta.StartTime =
              Times1000(output.rows[MinOf(EarliestAt(output.rows))].Timestamp)
        /\ output.meta.EndTime =
              Times1000(output.rows[MaxOf(LatestAt(output.rows))].Timestamp)
        /\ output.meta.StartLatitude =
              output.rows[MinOf(EarliestAt(output.rows))].Latitude
        /\ output.meta.StartLongitude =
              output.rows[MinOf(EarliestAt(output.rows))].Longitude
        /\ output.meta.EndLatitude =
              output.rows[MaxOf(LatestAt(output.rows))].Latitude
        /\ output.meta.EndLongitude =
              output.rows[MaxOf(LatestAt(output.rows))].Longitude

\* the sum of the great-circle distances between consecutive Samples
RECURSIVE LegSum(_)
LegSum(rows) ==
    IF Len(rows) <= 1 THEN 0
    ELSE LegSum(SubSeq(rows, 1, Len(rows) - 1))
         + haversine_m(rows[Len(rows) - 1].Latitude, rows[Len(rows) - 1].Longitude,
                       rows[Len(rows)].Latitude, rows[Len(rows)].Longitude)

\* C4: after any sequence of rows the cumulative distance is the sum of the
\* great-circle distances between each accepted row and the accepted row before
\* it; the first accepted row adds nothing, and a rejected row adds nothing and
\* does not break the chain.
C4_DistanceIsSumOfLegs ==
    /\ Len(tracks) = Len(accepted_at)
    /\ total_m = LegSum(tracks)
    /\ output # None => output.meta.TotalDistanceM = LegSum(output.rows)

\* a rejected row lies between two accepted rows that are apart
C4_Witness ==
    /\ accepted_at = <<1, 3>>
    /\ total_m > 0
    /\ total_m =
          haversine_m(tracks[1].Latitude, tracks[1].Longitude,
                      tracks[2].Latitude, tracks[2].Longitude)

\* the instants the resolved time columns give for row r
EpochInstant(r) ==
    IF schema.time_epoch_k # None
    THEN parse_epoch_as_dt(cell(r, schema.time_epoch_k))
    ELSE None

SodInstant(r) ==
    IF schema.time_sod_k # None
    THEN parse_sod_as_dt(cell(r, schema.time_sod_k), base)
    ELSE None

\* row r is one the loop rejects: latitude outside [-90,90], longitude outside
\* [-180,180], or no resolvable timestamp
Rejected(r) ==
    \/ Outside(Parsed[cell(r, schema.lat_k)], 90)
    \/ Outside(Parsed[cell(r, schema.lon_k)], 180)
    \/ (EpochInstant(r) = None /\ SodInstant(r) = None)

\* C5: reading a rejected row leaves the whole fold state unchanged: no Sample
\* is appended, and the cumulative distance, the previous accepted coordinate,
\* the first/last timestamps, the first/last coordinates and the error
\* collections keep their values.
C5_RejectedRowLeavesFoldUnchanged ==
    [][(rows_read' = rows_read + 1 /\ Rejected(last_row')) => UNCHANGED foldVars]_vars

\* a row with a longitude out of range was read after an accepted row, and
\* rejected
C5_Witness ==
    /\ rows_read >= 2
    /\ tracks # <<>>
    /\ Outside(LastLon, 180)
    /\ ~last_accepted
    /\ Len(tracks) = Len(accepted_at)

\* the cell is empty or does not read as a number
CellAnomaly(c) == IsBlank(c) \/ ~ReadsAsNumber(c)

\* C6: a row whose latitude, longitude or time is missing (empty), unparseable
\* or out of range is skipped; an anomaly in an optional field only makes that
\* field absent in the row's Sample.
C6_AnomalousRequiredFieldSkipsRow ==
    rows_read >= 1 =>
        /\ ( \/ CellAnomaly(LastCell(schema.lat_k))
             \/ CellAnomaly(LastCell(schema.lon_k))
             \/ Outside(LastLat, 90)
             \/ Outside(LastLon, 180)
             \/ (LastEpochInstant = None /\ LastSodInstant = None) )
              => ~last_accepted
        /\ (last_accepted /\ schema.her_k # None
                /\ CellAnomaly(LastCell(schema.her_k)))
              => LastSample.HorizontalError = None

\* a column of the header answers to one of the candidate names
HasColumn(cands) ==
    \E i \in 1..Len(header), j \in 1..Len(cands) : norm(header[i]) = cands[j]

\* latitude or longitude, or both time columns, fail to resolve
ConfigurationError ==
    \/ ~HasColumn(LAT_KEYS)
    \/ ~HasColumn(LON_KEYS)
    \/ (~HasColumn(TIME_KEYS_EPOCH) /\ ~HasColumn(TIME_KEYS_SOD))

\* C10: a run whose required columns fail to resolve, or whose rows are all
\* rejected, ends without writing output, with exit status 2 in the first case
\* and 1 in the second; output is written only on a run with at least one
\* accepted row.
C10_FatalErrorsWriteNothing ==
    /\ output # None => (pc = "exit" /\ exit_status = 0 /\ accepted_at # <<>>)
    /\ (pc = "exit" /\ accepted_at = <<>>) =>
          /\ output = None
          /\ exit_status = IF ConfigurationError THEN 2 ELSE 1
          /\ ConfigurationError => rows_read = 0

\* every row of the input was rejected: the run ends with status 1, no output
C10_Witness ==
    /\ pc = "exit"
    /\ exit_status = 1
    /\ rows_read >= 1
    /\ accepted_at = <<>>
    /\ output = None

\* the positions of the accepted rows are in input order
InInputOrder ==
    \A i, j \in 1..Len(accepted_at) : i < j => accepted_at[i] < accepted_at[j]

\* C11: after every accepted row, whatever the time order of the rows, the
\* tracked first timestamp is at most the tracked last timestamp, so on output
\* Start Time is not after End Time and Total Duration is not negative; the
\* Sample rows emitted are as many as the accepted rows, in input row order.
C11_FirstNotAfterLast ==
    /\ Len(tracks) = Len(accepted_at) /\ InInputOrder
    /\ last_accepted =>
          /\ LastSample.Latitude = LastLat
          /\ LastSample.Longitude = LastLon
    /\ tracks # <<>> =>
          /\ first_dt # None /\ last_dt # None
          /\ Leq(first_dt, last_dt)
    /\ output # None =>
          /\ Leq(output.meta.StartTime, output.meta.EndTime)
          /\ Leq(Zero, output.meta.TotalDuration)
          /\ output.rows = tracks
          /\ Len(output.rows) = Len(accepted_at)

\* output is written after two rows accepted against the order of time, with a
\* rejected row between them
C11_Witness ==
    /\ output # None
    /\ accepted_at = <<1, 3>>
    /\ Lt(tracks[2].Timestamp, tracks[1].Timestamp)
    /\ Lt(output.meta.StartTime, output.meta.EndTime)

====
